---- MODULE Spec2Model ----
(***************************************************************************)
(* Move-tree engine of chess-companion.                                    *)
(*                                                                         *)
(* The repository holds two revisions of the engine module:                *)
(*   src/src/lib/gameTree.ts  playMove(gameTree, fromNodeId, move)         *)
(*   src/unnamed/part_001     playMove(gameTree, move), findVariationPath  *)
(* convertMovesToGameTree, convertGameTreeToMoves, promoteVariation,       *)
(* deleteVariation and addComment are textually the same in both; playMove *)
(* and createVariation differ and are modelled separately (suffix _p1 for  *)
(* the part_001 revision).  A behaviour uses one revision throughout       *)
(* (variable impl).                                                        *)
(*                                                                         *)
(* Node and variation ids are the values of uuidv4(): the k-th of them is  *)
(* the number k.  0 stands for '' / null (no node).  A tree's own id is    *)
(* never compared with them and is kept as a tag.                          *)
(* A FEN is abstracted to the sequence of SAN moves that led to it.        *)
(***************************************************************************)
EXTENDS Integers, Sequences, FiniteSets, TLC

VARIABLES impl, tree, heap, uuids, phase, game, linear

vars == <<impl, tree, heap, uuids, phase, game, linear>>

(* ---- bounds ---------------------------------------------------------- *)
MaxNodes == 4
MaxUuids == 5
MaxComments == 1
MaxPairs == 2
MaxMoveNumber == 3

\* '' (no current node) and null (no parent).
NoNode == 0
\* An id that is a key of no tree.
UnknownId == 0 - 1

(* ---- Position Oracle: chess.js ---------------------------------------- *)
\* Move texts offered to the engine.  "e2e4" is the coordinate spelling that
\* chess.js accepts and normalises to the SAN "e4"; "Zz" is no move at all.
Texts == {"e4", "e2e4", "d4", "Zz"}

Slots == Texts \cup {""}

\* SAN that chess.js reports for an accepted move text ("" when unparsable).
San(text) ==
  CASE text = "e4" -> "e4"
    [] text = "e2e4" -> "e4"
    [] text = "d4" -> "d4"
    [] OTHER -> ""

StartFen == <<>>

\* new Chess(fen).move(text) succeeds: the text parses and the side to move
\* did not make this very move on its previous turn.
Legal(fen, text) ==
  /\ San(text) # ""
  /\ (Len(fen) < 2 \/ fen[Len(fen) - 1] # San(text))

\* chess.turn() before the move: the colour of the move made.
Turn(fen) == IF Len(fen) % 2 = 0 THEN "w" ELSE "b"

\* chess.fen() after the move.
FenAfter(fen, text) == Append(fen, San(text))

\* chess.moveNumber() of a position: the FEN full-move counter.
FullMove(fen) == (Len(fen) \div 2) + 1

(* ---- uuid ------------------------------------------------------------- *)
\* k-th uuid generated during the current call.
uuidv4(k) == uuids + k

(* ---- helpers ---------------------------------------------------------- *)
IndexOf(seq, x) ==
  IF \E i \in 1..Len(seq) : seq[i] = x
  THEN CHOOSE i \in 1..Len(seq) : seq[i] = x /\ \A j \in 1..(i - 1) : seq[j] # x
  ELSE 0

Includes(seq, x) == \E i \in 1..Len(seq) : seq[i] = x

\* obj with key k set to v ({...obj, [k]: v}).
Put(f, k, v) == [x \in (DOMAIN f) \cup {k} |-> IF x = k THEN v ELSE f[x]]

(* ---- variation shapes -------------------------------------------------- *)
\* ChessMoveNode.variations is declared string[][]; the code stores three
\* shapes in it:
\*   "ids"   a plain array of node ids            (part_001)
\*   "nodes" an array of node-object copies       (lib createVariation)
\*   "obj"   an object {id, moves: [ids]}         (lib playMove); the object is
\*           shared by every tree that holds it: its moves live in heap[id].
\* A mutant of IdsLine: the line is stored without its ids.
IdsLine_empty(ids) == [kind |-> "ids", id |-> 0, moves |-> <<>>]

IdsLine(ids) == [kind |-> "ids", id |-> 0, moves |-> ids]
NodesLine(ns) == [kind |-> "nodes", id |-> 0, moves |-> ns]
ObjLine(i) == [kind |-> "obj", id |-> i, moves |-> <<>>]

\* Node ids of a variation line, in order, as stored in heap h.
LineIds(v, h) ==
  CASE v.kind = "ids" -> v.moves
    [] v.kind = "nodes" -> [k \in DOMAIN v.moves |-> v.moves[k].id]
    [] OTHER -> h[v.id]

\* The value of a tree as its holder sees it through heap h.
TreeValue(t, h) ==
  [t EXCEPT !.moves =
     [i \in DOMAIN t.moves |->
        [t.moves[i] EXCEPT !.variations =
           [k \in DOMAIN t.moves[i].variations |->
              LineIds(t.moves[i].variations[k], h)]]]]

(* ---- convertMovesToGameTree ------------------------------------------- *)
NewTree(treeId) ==
  [id |-> treeId, rootPosition |-> StartFen, currentNode |-> NoNode,
   moves |-> <<>>, mainLine |-> <<>>]

\* A mutant of ConvertPly: lastNodeId is not moved on to the new node.
ConvertPly_staleLast(st, text, color, moveNumber) ==
  IF text = "" \/ ~Legal(st.fen, text) THEN st
  ELSE LET nodeId == uuidv4(st.n + 1)
           node == [id |-> nodeId, move |-> text, fen |-> FenAfter(st.fen, text),
                    moveNumber |-> moveNumber, color |-> color,
                    isMainLine |-> TRUE,
                    parentId |-> IF st.last # NoNode THEN st.last ELSE NoNode,
                    variations |-> <<>>, comment |-> ""]
       IN [tree |-> [st.tree EXCEPT !.moves = Put(@, nodeId, node),
                                    !.mainLine = Append(@, nodeId)],
           fen |-> FenAfter(st.fen, text), last |-> st.last, n |-> st.n + 1]

\* A mutant of ConvertPly: a rejected entry puts the running position back to
\* the start.
ConvertPly_resetsOnReject(st, text, color, moveNumber) ==
  IF text = "" THEN st
  ELSE IF ~Legal(st.fen, text) THEN [st EXCEPT !.fen = StartFen]
  ELSE LET nodeId == uuidv4(st.n + 1)
           node == [id |-> nodeId, move |-> text, fen |-> FenAfter(st.fen, text),
                    moveNumber |-> moveNumber, color |-> color,
                    isMainLine |-> TRUE,
                    parentId |-> IF st.last # NoNode THEN st.last ELSE NoNode,
                    variations |-> <<>>, comment |-> ""]
       IN [tree |-> [st.tree EXCEPT !.moves = Put(@, nodeId, node),
                                    !.mainLine = Append(@, nodeId)],
           fen |-> FenAfter(st.fen, text), last |-> nodeId, n |-> st.n + 1]

\* A mutant of ConvertPly: the node records the position before its move.
ConvertPly_fenBefore(st, text, color, moveNumber) ==
  IF text = "" \/ ~Legal(st.fen, text) THEN st
  ELSE LET nodeId == uuidv4(st.n + 1)
           node == [id |-> nodeId, move |-> text, fen |-> st.fen,
                    moveNumber |-> moveNumber, color |-> color,
                    isMainLine |-> TRUE,
                    parentId |-> IF st.last # NoNode THEN st.last ELSE NoNode,
                    variations |-> <<>>, comment |-> ""]
       IN [tree |-> [st.tree EXCEPT !.moves = Put(@, nodeId, node),
                                    !.mainLine = Append(@, nodeId)],
           fen |-> FenAfter(st.fen, text), last |-> nodeId, n |-> st.n + 1]

\* One half of the loop body: "if (moveObj.white) { try { chess.move ... } }".
\* st = [tree, fen, last, n]: the tree so far, the chess object's position,
\* lastNodeId and the number of uuids generated.
ConvertPly(st, text, color, moveNumber) ==
  IF text = "" \/ ~Legal(st.fen, text) THEN st
  ELSE LET nodeId == uuidv4(st.n + 1)
           node == [id |-> nodeId, move |-> text, fen |-> FenAfter(st.fen, text),
                    moveNumber |-> moveNumber, color |-> color,
                    isMainLine |-> TRUE,
                    parentId |-> IF st.last # NoNode THEN st.last ELSE NoNode,
                    variations |-> <<>>, comment |-> ""]
       IN [tree |-> [st.tree EXCEPT !.moves = Put(@, nodeId, node),
                                    !.mainLine = Append(@, nodeId)],
           fen |-> FenAfter(st.fen, text), last |-> nodeId, n |-> st.n + 1]

RECURSIVE ConvertLoop(_, _, _)
ConvertLoop(moves, i, st) ==
  IF i > Len(moves) THEN st
  ELSE LET w == ConvertPly(st, moves[i].white, "w", moves[i].moveNumber)
           b == ConvertPly(w, moves[i].black, "b", moves[i].moveNumber)
       IN ConvertLoop(moves, i + 1, b)

\* A mutant of convertMovesToGameTree: the cursor is put on the id after the
\* last one generated.
convertMovesToGameTree_cursorPastEnd(moves) ==
  LET st0 == [tree |-> NewTree("uuid"), fen |-> StartFen, last |-> NoNode, n |-> 0]
      st == ConvertLoop(moves, 1, st0)
      t == st.tree
  IN [tree |-> IF Len(t.mainLine) > 0
               THEN [t EXCEPT !.currentNode = uuidv4(st.n + 1)]
               ELSE t,
      heap |-> heap, uuids |-> uuids + st.n, threw |-> FALSE]

convertMovesToGameTree(moves) ==
  LET st0 == [tree |-> NewTree("uuid"), fen |-> StartFen, last |-> NoNode, n |-> 0]
      st == ConvertLoop(moves, 1, st0)
      t == st.tree
  IN [tree |-> IF Len(t.mainLine) > 0
               THEN [t EXCEPT !.currentNode = t.mainLine[Len(t.mainLine)]]
               ELSE t,
      heap |-> heap, uuids |-> uuids + st.n, threw |-> FALSE]

(* ---- convertGameTreeToMoves ------------------------------------------- *)
\* st = [moves, cur, num]: the output list, currentMove, currentMoveNumber.
ToMovesStep(gameTree, nodeId, st) ==
  IF nodeId \notin DOMAIN gameTree.moves THEN st
  ELSE LET node == gameTree.moves[nodeId] IN
    IF node.color = "w"
    THEN IF st.cur.white # ""
         THEN [moves |-> Append(st.moves, st.cur),
               num |-> st.num + 1,
               cur |-> [moveNumber |-> st.num + 1, white |-> node.move, black |-> ""]]
         ELSE [st EXCEPT !.cur = [moveNumber |-> IF node.moveNumber # 0
                                                 THEN node.moveNumber ELSE st.num,
                                  white |-> node.move, black |-> st.cur.black]]
    ELSE [moves |-> Append(st.moves, [st.cur EXCEPT !.black = node.move]),
          num |-> st.num + 1,
          cur |-> [moveNumber |-> st.num + 1, white |-> "", black |-> ""]]

\* A mutant of ToMovesLoop: the walk visits every node of the store.
RECURSIVE ToMovesLoop_allNodes(_, _, _)
ToMovesLoop_allNodes(gameTree, i, st) ==
  IF i > Cardinality(DOMAIN gameTree.moves) THEN st
  ELSE LET nodeId == CHOOSE k \in DOMAIN gameTree.moves :
                       Cardinality({j \in DOMAIN gameTree.moves : j < k}) = i - 1
       IN ToMovesLoop_allNodes(gameTree, i + 1, ToMovesStep(gameTree, nodeId, st))

RECURSIVE ToMovesLoop(_, _, _)
ToMovesLoop(gameTree, i, st) ==
  IF i > Len(gameTree.mainLine) THEN st
  ELSE ToMovesLoop(gameTree, i + 1, ToMovesStep(gameTree, gameTree.mainLine[i], st))

\* A mutant of convertGameTreeToMoves: the pair left open when the line ends
\* on a white move is not emitted.
convertGameTreeToMoves_dropsOpenPair(gameTree) ==
  IF Len(gameTree.mainLine) = 0 THEN <<>>
  ELSE ToMovesLoop(gameTree, 1,
                   [moves |-> <<>>, num |-> 1,
                    cur |-> [moveNumber |-> 1, white |-> "", black |-> ""]]).moves

convertGameTreeToMoves(gameTree) ==
  IF Len(gameTree.mainLine) = 0 THEN <<>>
  ELSE LET st == ToMovesLoop(gameTree, 1,
                   [moves |-> <<>>, num |-> 1,
                    cur |-> [moveNumber |-> 1, white |-> "", black |-> ""]])
       IN IF st.cur.white # "" /\ st.cur.black = ""
          THEN Append(st.moves, st.cur) ELSE st.moves

(* ---- results of an engine call ----------------------------------------- *)
\* What a call leaves behind: the tree it returns, the heap of shared
\* variation objects, the number of uuids generated so far, and whether it
\* threw instead of returning.
Ret(t, h, n) == [tree |-> t, heap |-> h, uuids |-> uuids + n, threw |-> FALSE]
Throw(t) == [tree |-> t, heap |-> heap, uuids |-> uuids, threw |-> TRUE]

(* ---- src/src/lib/gameTree.ts: createVariation --------------------------- *)
\* Index of the first variation whose first element is a node object with
\* this move text (0 when none).  "variation.length > 0" is false for an
\* {id, moves} object, and an id string has no .move.
ExistingVariation(parentNode, move) ==
  LET hit(k) == /\ parentNode.variations[k].kind = "nodes"
                /\ Len(parentNode.variations[k].moves) > 0
                /\ parentNode.variations[k].moves[1].move = move
  IN IF \E k \in DOMAIN parentNode.variations : hit(k)
     THEN CHOOSE k \in DOMAIN parentNode.variations :
            hit(k) /\ \A j \in 1..(k - 1) : ~hit(j)
     ELSE 0

createVariation(gameTree, parentNodeId, move) ==
  IF parentNodeId \notin DOMAIN gameTree.moves THEN Ret(gameTree, heap, 0)
  ELSE
    LET parentNode == gameTree.moves[parentNodeId]
        ex == ExistingVariation(parentNode, move)
    IN
    IF ex # 0
    THEN Ret([gameTree EXCEPT !.currentNode = parentNode.variations[ex].moves[1].id],
             heap, 0)
    ELSE IF ~Legal(parentNode.fen, move) THEN Ret(gameTree, heap, 0)
    ELSE
      LET newNodeId == uuidv4(1)
          newNode == [id |-> newNodeId,
                      moveNumber |-> parentNode.moveNumber
                                       + (IF parentNode.color = "w" THEN 0 ELSE 1),
                      move |-> San(move),
                      color |-> IF parentNode.color = "w" THEN "b" ELSE "w",
                      fen |-> FenAfter(parentNode.fen, move),
                      isMainLine |-> FALSE,
                      parentId |-> parentNodeId,
                      variations |-> <<>>, comment |-> ""]
      IN
      \* v.map(...) on an {id, moves} object is a TypeError, caught by the
      \* function's catch: "return gameTree".
      IF \E k \in DOMAIN parentNode.variations : parentNode.variations[k].kind = "obj"
      THEN Ret(gameTree, heap, 1)
      ELSE
        LET updatedParent ==
              [parentNode EXCEPT !.variations = Append(@, NodesLine(<<newNode>>))]
        IN Ret([gameTree EXCEPT
                  !.moves = Put(Put(@, newNodeId, newNode), parentNodeId, updatedParent),
                  !.currentNode = newNodeId],
               heap, 1)

(* ---- src/src/lib/gameTree.ts: playMove ---------------------------------- *)
\* The forEach scan: every <<parent id, variation index>> of an {id, moves}
\* variation whose last element is fromNodeId.
LastInVariationAt(gameTree, fromNodeId) ==
  {pk \in UNION {{<<p, k>> : k \in DOMAIN gameTree.moves[p].variations} :
                   p \in DOMAIN gameTree.moves} :
     LET v == gameTree.moves[pk[1]].variations[pk[2]] IN
       /\ v.kind = "obj"
       /\ Len(heap[v.id]) > 0
       /\ IndexOf(heap[v.id], fromNodeId) = Len(heap[v.id])}

\* variationInfo: the scan keeps the last match it meets.
VariationInfo(S) ==
  CHOOSE pk \in S : \A qk \in S :
    qk[1] < pk[1] \/ (qk[1] = pk[1] /\ qk[2] <= pk[2])

\* playMove once the move is accepted: build the node and attach it.
PlayAccepted(gameTree, fromNodeId, move) ==
    LET node == gameTree.moves[fromNodeId] IN
      LET newNodeId == uuidv4(1)
          newNode == [id |-> newNodeId,
                      move |-> move,
                      fen |-> FenAfter(node.fen, move),
                      moveNumber |-> node.moveNumber
                                       + (IF node.color = "w" THEN 0 ELSE 1),
                      color |-> IF node.color = "w" THEN "b" ELSE "w",
                      isMainLine |-> TRUE,
                      parentId |-> fromNodeId,
                      variations |-> <<>>, comment |-> ""]
          updatedMoves == Put(gameTree.moves, newNodeId, newNode)
          isLastNodeInMainLine ==
            /\ Len(gameTree.mainLine) > 0
            /\ gameTree.mainLine[Len(gameTree.mainLine)] = fromNodeId
          found == LastInVariationAt(gameTree, fromNodeId)
      IN
      IF isLastNodeInMainLine
      THEN Ret([gameTree EXCEPT !.moves = updatedMoves,
                                !.mainLine = Append(@, newNodeId),
                                !.currentNode = newNodeId],
               heap, 1)
      ELSE IF found # {}
      THEN \* updatedVariations[i].moves.push(newNodeId): the variation object
           \* is the one the input tree holds.
           LET info == VariationInfo(found)
               vid == gameTree.moves[info[1]].variations[info[2]].id
           IN Ret([gameTree EXCEPT !.moves = updatedMoves,
                                   !.currentNode = newNodeId],
                  [heap EXCEPT ![vid] = Append(@, newNodeId)], 1)
      ELSE LET vid == uuidv4(2)
               updatedNode == [node EXCEPT !.variations = Append(@, ObjLine(vid))]
           IN Ret([gameTree EXCEPT !.moves = Put(updatedMoves, fromNodeId, updatedNode),
                                   !.currentNode = newNodeId],
                  Put(heap, vid, <<newNodeId>>), 2)

\* A mutant of playMove: the rejected move is attached all the same.
playMove_unchecked(gameTree, fromNodeId, move) ==
  IF fromNodeId \notin DOMAIN gameTree.moves THEN Ret(gameTree, heap, 0)
  ELSE PlayAccepted(gameTree, fromNodeId, move)

\* A mutant of playMove: the root position follows the position played from.
playMove_movesRoot(gameTree, fromNodeId, move) ==
  IF fromNodeId \notin DOMAIN gameTree.moves THEN Ret(gameTree, heap, 0)
  ELSE IF ~Legal(gameTree.moves[fromNodeId].fen, move) THEN Ret(gameTree, heap, 0)
  ELSE LET r == PlayAccepted(gameTree, fromNodeId, move)
       IN [r EXCEPT !.tree.rootPosition = gameTree.moves[fromNodeId].fen]

playMove(gameTree, fromNodeId, move) ==
  IF fromNodeId \notin DOMAIN gameTree.moves THEN Ret(gameTree, heap, 0)
  ELSE IF ~Legal(gameTree.moves[fromNodeId].fen, move) THEN Ret(gameTree, heap, 0)
  ELSE PlayAccepted(gameTree, fromNodeId, move)

(* ---- src/unnamed/part_001: createVariation ------------------------------ *)
\* A mutant of createVariation: the new line holds the parent's id.
createVariation_p1_parentInLine(gameTree, parentId, move) ==
  IF parentId \notin DOMAIN gameTree.moves THEN Ret(gameTree, heap, 0)
  ELSE
    LET parentNode == gameTree.moves[parentId] IN
    IF ~Legal(parentNode.fen, move) THEN Ret(gameTree, heap, 0)
    ELSE
      LET newNodeId == uuidv4(1)
          after == FenAfter(parentNode.fen, move)
          newNode == [id |-> newNodeId,
                      moveNumber |-> FullMove(after),
                      move |-> San(move),
                      color |-> Turn(parentNode.fen),
                      fen |-> after,
                      isMainLine |-> FALSE,
                      parentId |-> parentId,
                      variations |-> <<>>, comment |-> ""]
          updatedParentNode ==
            [parentNode EXCEPT !.variations = Append(@, IdsLine(<<parentId>>))]
      IN Ret([gameTree EXCEPT
                !.moves = Put(Put(@, newNodeId, newNode), parentId, updatedParentNode),
                !.currentNode = newNodeId],
             heap, 1)

createVariation_p1(gameTree, parentId, move) ==
  IF parentId \notin DOMAIN gameTree.moves THEN Ret(gameTree, heap, 0)
  ELSE
    LET parentNode == gameTree.moves[parentId] IN
    IF ~Legal(parentNode.fen, move) THEN Ret(gameTree, heap, 0)
    ELSE
      LET newNodeId == uuidv4(1)
          after == FenAfter(parentNode.fen, move)
          newNode == [id |-> newNodeId,
                      moveNumber |-> FullMove(after),
                      move |-> San(move),
                      color |-> Turn(parentNode.fen),
                      fen |-> after,
                      isMainLine |-> FALSE,
                      parentId |-> parentId,
                      variations |-> <<>>, comment |-> ""]
          updatedParentNode ==
            [parentNode EXCEPT !.variations = Append(@, IdsLine(<<newNodeId>>))]
      IN Ret([gameTree EXCEPT
                !.moves = Put(Put(@, newNodeId, newNode), parentId, updatedParentNode),
                !.currentNode = newNodeId],
             heap, 1)

(* ---- src/unnamed/part_001: findVariationPath ---------------------------- *)
\* The ids a variation yields when read as "Array.isArray(v) ? v : v.moves":
\* an array of node objects yields objects, which are no ids.
VariationNodes(v) ==
  CASE v.kind = "ids" -> v.moves
    [] v.kind = "obj" -> heap[v.id]
    [] OTHER -> <<>>

RECURSIVE Flatten(_)
Flatten(vs) ==
  IF vs = <<>> THEN <<>> ELSE VariationNodes(Head(vs)) \o Flatten(Tail(vs))

RECURSIVE dfs(_, _, _, _)
RECURSIVE dfsEach(_, _, _, _)
\* The path when the search from currentId finds nodeId, <<>> when it does not.
dfs(gameTree, nodeId, currentId, path) ==
  LET p == Append(path, currentId) IN
  IF currentId = nodeId THEN p
  ELSE IF currentId \notin DOMAIN gameTree.moves THEN <<>>
  ELSE
    LET mainLineIndex == IndexOf(gameTree.mainLine, currentId)
        viaMain == IF mainLineIndex >= 1 /\ mainLineIndex < Len(gameTree.mainLine)
                   THEN dfs(gameTree, nodeId, gameTree.mainLine[mainLineIndex + 1], p)
                   ELSE <<>>
    IN IF viaMain # <<>> THEN viaMain
       ELSE dfsEach(gameTree, nodeId, Flatten(gameTree.moves[currentId].variations), p)

dfsEach(gameTree, nodeId, ids, path) ==
  IF ids = <<>> THEN <<>>
  ELSE LET r == dfs(gameTree, nodeId, Head(ids), path)
       IN IF r # <<>> THEN r ELSE dfsEach(gameTree, nodeId, Tail(ids), path)

RECURSIVE FromMainLine(_, _, _)
FromMainLine(gameTree, nodeId, i) ==
  IF i > Len(gameTree.mainLine) THEN <<>>
  ELSE LET r == dfs(gameTree, nodeId, gameTree.mainLine[i], <<>>)
       IN IF r # <<>> THEN r ELSE FromMainLine(gameTree, nodeId, i + 1)

findVariationPath(gameTree, nodeId) ==
  IF Includes(gameTree.mainLine, nodeId) THEN <<>>
  ELSE FromMainLine(gameTree, nodeId, 1)

(* ---- src/unnamed/part_001: playMove ------------------------------------- *)
\* Id of the first node of the first variation of parentNode that starts with
\* this move text (NoNode when none).
ExistingVariationNode(gameTree, parentNode, move) ==
  LET first(k) == IF VariationNodes(parentNode.variations[k]) = <<>> THEN NoNode
                  ELSE VariationNodes(parentNode.variations[k])[1]
      hit(k) == /\ first(k) # NoNode
                /\ first(k) \in DOMAIN gameTree.moves
                /\ gameTree.moves[first(k)].move = move
  IN IF \E k \in DOMAIN parentNode.variations : hit(k)
     THEN first(CHOOSE k \in DOMAIN parentNode.variations :
                  hit(k) /\ \A j \in 1..(k - 1) : ~hit(j))
     ELSE NoNode

\* parentNode.variations.findIndex(v => v.includes(currentNode)); 0 for -1.
VariationIndex(parentNode, nodeId) ==
  LET hit(k) == Includes(VariationNodes(parentNode.variations[k]), nodeId)
  IN IF \E k \in DOMAIN parentNode.variations : hit(k)
     THEN CHOOSE k \in DOMAIN parentNode.variations :
            hit(k) /\ \A j \in 1..(k - 1) : ~hit(j)
     ELSE 0

\* [...variation, newNodeId] or {...variation, moves: [...variation.moves, id]}
ExtendLine(v, newNodeId, objId) ==
  IF v.kind = "obj" THEN ObjLine(objId) ELSE [v EXCEPT !.moves = Append(@, newNodeId)]

playMove_p1(gameTree, move) ==
  IF gameTree.currentNode # NoNode
  THEN
    \* currentNode.fen of an absent node is a TypeError.
    IF gameTree.currentNode \notin DOMAIN gameTree.moves THEN Throw(gameTree)
    ELSE
      LET currentNode == gameTree.moves[gameTree.currentNode] IN
      IF ~Legal(currentNode.fen, move) THEN Ret(gameTree, heap, 0)
      ELSE
        LET newNodeId == uuidv4(1)
            after == FenAfter(currentNode.fen, move)
            newNode == [id |-> newNodeId,
                        moveNumber |-> FullMove(after),
                        move |-> San(move),
                        color |-> Turn(currentNode.fen),
                        fen |-> after,
                        isMainLine |-> FALSE,
                        parentId |-> gameTree.currentNode,
                        variations |-> <<>>, comment |-> ""]
            isLastInMainLine ==
              /\ Len(gameTree.mainLine) > 0
              /\ gameTree.mainLine[Len(gameTree.mainLine)] = gameTree.currentNode
            variationPath == IF isLastInMainLine THEN <<>>
                             ELSE findVariationPath(gameTree, gameTree.currentNode)
            isLastInVariation ==
              /\ Len(variationPath) > 0
              /\ variationPath[Len(variationPath)] = gameTree.currentNode
            existingVariationNode == ExistingVariationNode(gameTree, currentNode, move)
            updatedMoves == Put(gameTree.moves, newNodeId, newNode)
        IN
        IF existingVariationNode # NoNode
        THEN Ret([gameTree EXCEPT !.currentNode = existingVariationNode], heap, 1)
        ELSE IF isLastInMainLine
        THEN Ret([gameTree EXCEPT
                    !.moves = Put(gameTree.moves, newNodeId,
                                  [newNode EXCEPT !.isMainLine = TRUE]),
                    !.mainLine = Append(@, newNodeId),
                    !.currentNode = newNodeId],
                 heap, 1)
        ELSE IF isLastInVariation
        THEN
          LET parentId == variationPath[Len(variationPath) - 1] IN
          IF parentId \notin DOMAIN gameTree.moves THEN Ret(gameTree, heap, 1)
          ELSE
            LET parentNode == gameTree.moves[parentId]
                variationIndex == VariationIndex(parentNode, gameTree.currentNode)
            IN
            IF variationIndex = 0 THEN Ret(gameTree, heap, 1)
            ELSE
              LET variation == parentNode.variations[variationIndex]
                  \* {...variation, moves: [...]} is a new object of its own
                  copyId == 0 - (Cardinality(DOMAIN heap) + 1)
                  updatedParentNode ==
                    [parentNode EXCEPT !.variations[variationIndex] =
                       ExtendLine(variation, newNodeId, copyId)]
              IN Ret([gameTree EXCEPT
                        !.moves = Put(updatedMoves, parentId, updatedParentNode),
                        !.currentNode = newNodeId],
                     IF variation.kind = "obj"
                     THEN Put(heap, copyId, Append(heap[variation.id], newNodeId))
                     ELSE heap,
                     1)
        ELSE
          LET updatedParentNode ==
                [currentNode EXCEPT !.variations = Append(@, IdsLine(<<newNodeId>>))]
          IN Ret([gameTree EXCEPT
                    !.moves = Put(updatedMoves, gameTree.currentNode, updatedParentNode),
                    !.currentNode = newNodeId],
                 heap, 1)
  ELSE
    IF ~Legal(gameTree.rootPosition, move) THEN Ret(gameTree, heap, 0)
    ELSE
      LET newNodeId == uuidv4(1)
          after == FenAfter(gameTree.rootPosition, move)
          newNode == [id |-> newNodeId,
                      moveNumber |-> FullMove(after),
                      move |-> San(move),
                      color |-> Turn(gameTree.rootPosition),
                      fen |-> after,
                      isMainLine |-> TRUE,
                      parentId |-> NoNode,
                      variations |-> <<>>, comment |-> ""]
      IN Ret([gameTree EXCEPT !.moves = Put(@, newNodeId, newNode),
                              !.mainLine = <<newNodeId>>,
                              !.currentNode = newNodeId],
             heap, 1)

(* ---- promoteVariation, deleteVariation, addComment ---------------------- *)
\* A mutant of promoteVariation: the main line loses its last move.
promoteVariation_cutsMainLine(gameTree, variationPath) ==
  Ret([gameTree EXCEPT !.mainLine = SubSeq(@, 1, Len(@) - 1)], heap, 0)

promoteVariation(gameTree, variationPath) == Ret(gameTree, heap, 0)

\* A mutant of deleteVariation: the nodes off the main line leave the store.
deleteVariation_dropsNodes(gameTree, variationPath) ==
  Ret([gameTree EXCEPT
         !.moves = [i \in {j \in DOMAIN gameTree.moves : Includes(gameTree.mainLine, j)}
                      |-> [gameTree.moves[i] EXCEPT !.variations = <<>>]]],
      heap, 0)

deleteVariation(gameTree, variationPath) == Ret(gameTree, heap, 0)

\* A mutant of addComment: the commented node becomes the current node.
addComment_movesCursor(gameTree, nodeId, comment) ==
  IF nodeId \in DOMAIN gameTree.moves
  THEN Ret([gameTree EXCEPT !.moves[nodeId].comment = comment,
                            !.currentNode = nodeId], heap, 0)
  ELSE Ret(gameTree, heap, 0)

addComment(gameTree, nodeId, comment) ==
  IF nodeId \in DOMAIN gameTree.moves
  THEN Ret([gameTree EXCEPT !.moves[nodeId].comment = comment], heap, 0)
  ELSE Ret(gameTree, heap, 0)

(* ---- the program -------------------------------------------------------- *)
\* useState initial value of GameTreeChessBoard: the empty game.
EmptyTree == NewTree("new-game")

Impls == {"lib", "p1"}

Comments == {"!"}

VariationPaths == {<<1>>}

\* Scoresheets handed over as initialGameTree (the converter on arbitrary
\* lists is checked under SpecConv): a full move whose white entry is written
\* in coordinates, and a pair whose white entry is unreadable.
Pair(n, w, b) == [moveNumber |-> n, white |-> w, black |-> b]

Scoresheets ==
  {<<Pair(1, "e2e4", "d4")>>, <<Pair(1, "Zz", "d4")>>}

NodeArgs == (DOMAIN tree.moves) \cup {NoNode, UnknownId}

HasRoom ==
  /\ Cardinality(DOMAIN tree.moves) < MaxNodes
  /\ uuids < MaxUuids

Commented == {i \in DOMAIN tree.moves : tree.moves[i].comment # ""}

\* The caller replaces its tree by what the call returned; a call that threw
\* leaves the caller's tree as it was.
Call(r) ==
  /\ tree' = IF r.threw THEN tree ELSE r.tree
  /\ heap' = r.heap
  /\ uuids' = r.uuids
  /\ phase' = "edit"
  /\ UNCHANGED <<impl, linear>>

Init ==
  /\ impl \in Impls
  /\ tree = EmptyTree
  /\ heap = <<>>
  /\ uuids = 0
  /\ phase = "new"
  /\ game = <<>>
  /\ linear = <<>>

\* initialGameTree = convertMovesToGameTree(digitizedMoves)
Load ==
  /\ phase = "new"
  /\ \E moves \in Scoresheets :
       /\ Call(convertMovesToGameTree(moves))
       /\ game' = moves

PlayMove ==
  /\ impl = "lib"
  /\ HasRoom
  /\ \E fromNodeId \in NodeArgs, move \in Texts :
       Call(playMove(tree, fromNodeId, move))
  /\ UNCHANGED game

PlayMove_p1 ==
  /\ impl = "p1"
  /\ HasRoom
  /\ \E move \in Texts : Call(playMove_p1(tree, move))
  /\ UNCHANGED game

CreateVariation ==
  /\ impl = "lib"
  /\ HasRoom
  /\ \E parentNodeId \in NodeArgs, move \in Texts :
       Call(createVariation(tree, parentNodeId, move))
  /\ UNCHANGED game

CreateVariation_p1 ==
  /\ impl = "p1"
  /\ HasRoom
  /\ \E parentId \in NodeArgs, move \in Texts :
       Call(createVariation_p1(tree, parentId, move))
  /\ UNCHANGED game

PromoteVariation ==
  /\ \E variationPath \in VariationPaths : Call(promoteVariation(tree, variationPath))
  /\ UNCHANGED game

DeleteVariation ==
  /\ \E variationPath \in VariationPaths : Call(deleteVariation(tree, variationPath))
  /\ UNCHANGED game

AddComment ==
  /\ \E nodeId \in NodeArgs, comment \in Comments :
       /\ \/ nodeId \notin DOMAIN tree.moves
          \/ Cardinality(Commented \cup {nodeId}) <= MaxComments
       /\ Call(addComment(tree, nodeId, comment))
  /\ UNCHANGED game

\* handleMoveSelect: the user clicks a move of the tree.
handleMoveSelect(gameTree, nodeId) ==
  Ret([gameTree EXCEPT !.currentNode = nodeId], heap, 0)

HandleMoveSelect ==
  /\ \E nodeId \in DOMAIN tree.moves : Call(handleMoveSelect(tree, nodeId))
  /\ UNCHANGED game

\* goToStart: back to the root position.
goToStart(gameTree) ==
  IF Len(gameTree.mainLine) > 0
  THEN Ret([gameTree EXCEPT !.currentNode = NoNode], heap, 0)
  ELSE Ret(gameTree, heap, 0)

GoToStart ==
  /\ Call(goToStart(tree))
  /\ UNCHANGED game

Next ==
  \/ Load
  \/ PlayMove
  \/ PlayMove_p1
  \/ CreateVariation
  \/ CreateVariation_p1
  \/ PromoteVariation
  \/ DeleteVariation
  \/ AddComment
  \/ HandleMoveSelect
  \/ GoToStart

Spec == Init /\ [][Next]_vars

(* ---- the converter on its own ------------------------------------------- *)
\* Move lists as OCR hands them over: any move number from 1, any slot empty,
\* unreadable or illegal.
ConvSlots == {"e4", "d4", "Zz", ""}

\* A row of a scoresheet holds at least one entry.
Rows ==
  {p \in [moveNumber : 1..MaxMoveNumber, white : ConvSlots, black : ConvSlots] :
     p.white # "" \/ p.black # ""}

MoveLists == UNION {[1..k -> Rows] : k \in 0..MaxPairs}

InitConv ==
  /\ impl \in Impls
  /\ tree = EmptyTree
  /\ heap = <<>>
  /\ uuids = 0
  /\ phase = "input"
  /\ game \in MoveLists
  /\ linear = <<>>

ToTree ==
  /\ phase = "input"
  /\ LET r == convertMovesToGameTree(game) IN
       /\ tree' = r.tree
       /\ uuids' = r.uuids
  /\ phase' = "tree"
  /\ UNCHANGED <<impl, heap, game, linear>>

ToLinear ==
  /\ phase = "tree"
  /\ linear' = convertGameTreeToMoves(tree)
  /\ phase' = "moves"
  /\ UNCHANGED <<impl, tree, heap, uuids, game>>

NextConv == ToTree \/ ToLinear

SpecConv == InitConv /\ [][NextConv]_vars

(* ---- what the claims speak about ---------------------------------------- *)
\* The from-nodes a playMove call can be given in this state: an argument in
\* lib/gameTree.ts, the cursor in part_001.
Froms == IF impl = "lib" THEN NodeArgs ELSE {tree.currentNode}

Play(fromNodeId, move) ==
  IF impl = "lib" THEN playMove(tree, fromNodeId, move) ELSE playMove_p1(tree, move)

Vary(parentNodeId, move) ==
  IF impl = "lib" THEN createVariation(tree, parentNodeId, move)
  ELSE createVariation_p1(tree, parentNodeId, move)

\* The position a move is played from: the node's, or the root position for
\* the sentinel.
PositionAt(fromNodeId) ==
  IF fromNodeId = NoNode THEN tree.rootPosition ELSE tree.moves[fromNodeId].fen

HasPosition(fromNodeId) == fromNodeId = NoNode \/ fromNodeId \in DOMAIN tree.moves

\* Same node set, same records, same lines, same mainLine, same currentNode.
SameTree(r) == ~r.threw /\ TreeValue(r.tree, r.heap) = TreeValue(tree, heap)

IsLastOfMainLine(t, nodeId) ==
  Len(t.mainLine) > 0 /\ t.mainLine[Len(t.mainLine)] = nodeId

Lines(t, h, nodeId) == TreeValue(t, h).moves[nodeId].variations

C2_ExtendsMainLine ==
  \A f \in Froms \cap DOMAIN tree.moves, m \in Texts :
    (f = tree.currentNode /\ IsLastOfMainLine(tree, f) /\ Legal(PositionAt(f), m)) =>
      LET r == Play(f, m) IN
        /\ ~r.threw
        /\ Len(r.tree.mainLine) = Len(tree.mainLine) + 1
        /\ SubSeq(r.tree.mainLine, 1, Len(tree.mainLine)) = tree.mainLine
        /\ LET n == r.tree.mainLine[Len(r.tree.mainLine)] IN
             /\ n \notin DOMAIN tree.moves
             /\ n \in DOMAIN r.tree.moves
             /\ r.tree.moves[n].isMainLine

\* C3: from a main-line node that is not the last one every legal move leaves
\* mainLine alone and gives the node exactly one more variation, a line that
\* holds the new node only.
C3_BranchesFromMainLine ==
  \A f \in Froms \cap DOMAIN tree.moves, m \in Texts :
    (/\ f = tree.currentNode
     /\ Includes(tree.mainLine, f) /\ ~IsLastOfMainLine(tree, f)
     /\ Legal(PositionAt(f), m)) =>
      LET r == Play(f, m) IN
        /\ ~r.threw
        /\ r.tree.mainLine = tree.mainLine
        /\ f \in DOMAIN r.tree.moves
        /\ LET before == Lines(tree, heap, f)
               after == Lines(r.tree, r.heap, f)
           IN /\ Len(after) = Len(before) + 1
              /\ SubSeq(after, 1, Len(before)) = before
              /\ Len(after[Len(after)]) = 1
              /\ after[Len(after)][1] \notin DOMAIN tree.moves
              /\ after[Len(after)][1] \in DOMAIN r.tree.moves

\* C4: the first move of a game: from the empty tree and the sentinel, a
\* legal move m becomes mainLine = [n1], n1 = (m, move 1, no parent, main
\* line), and the cursor is on n1.
C4_FirstMoveFromRoot ==
  \A f \in Froms, m \in Texts :
    (/\ f = NoNode /\ tree.currentNode = NoNode
     /\ DOMAIN tree.moves = {} /\ tree.mainLine = <<>>
     /\ Legal(tree.rootPosition, m)) =>
      LET r == Play(f, m) IN
        /\ ~r.threw
        /\ Len(r.tree.mainLine) = 1
        /\ LET n1 == r.tree.mainLine[1] IN
             /\ DOMAIN r.tree.moves = {n1}
             /\ San(r.tree.moves[n1].move) = San(m)
             /\ r.tree.moves[n1].moveNumber = 1
             /\ r.tree.moves[n1].parentId = NoNode
             /\ r.tree.moves[n1].isMainLine
             /\ r.tree.currentNode = n1

\* C5: a second createVariation with the same parent and move text adds
\* nothing and puts the cursor on the first node of the variation that the
\* first call created.
C5_FirstCall(n, m) ==
  LET r == Vary(n, m) IN
    /\ tree' = r.tree /\ heap' = r.heap /\ uuids' = r.uuids
    /\ Cardinality(DOMAIN r.tree.moves) = Cardinality(DOMAIN tree.moves) + 1

C5_SecondCall(n, m) ==
  LET created == Lines(tree, heap, n)[Len(Lines(tree, heap, n))][1]
      r2 == Vary(n, m)
  IN /\ ~r2.threw
     /\ Cardinality(DOMAIN r2.tree.moves) = Cardinality(DOMAIN tree.moves)
     /\ Len(Lines(r2.tree, r2.heap, n)) = Len(Lines(tree, heap, n))
     /\ r2.tree.currentNode = created

C5_CreateVariationTwice ==
  [][\A n \in DOMAIN tree.moves, m \in Texts :
       (Legal(tree.moves[n].fen, m) /\ C5_FirstCall(n, m)) => C5_SecondCall(n, m)']_vars

\* C6: a move list whose non-empty entries are all legal in sequence comes
\* back from the tree pair for pair.
RECURSIVE Plies(_)
Plies(moves) ==
  IF moves = <<>> THEN <<>>
  ELSE (IF Head(moves).white # "" THEN <<Head(moves).white>> ELSE <<>>)
       \o (IF Head(moves).black # "" THEN <<Head(moves).black>> ELSE <<>>)
       \o Plies(Tail(moves))

RECURSIVE LegalInSequence(_, _)
LegalInSequence(plies, fen) ==
  \/ plies = <<>>
  \/ /\ Legal(fen, Head(plies))
     /\ LegalInSequence(Tail(plies), FenAfter(fen, Head(plies)))

C6_RoundTrip ==
  (phase = "moves" /\ LegalInSequence(Plies(game), StartFen)) => linear = game

\* C7: no call changes the tree its caller passed in: every node record and
\* every variation line of the input reads the same after the call.
Calls ==
  {Play(f, m) : f \in Froms, m \in Texts}
    \cup {Vary(n, m) : n \in NodeArgs, m \in Texts}
    \cup {addComment(tree, n, c) : n \in NodeArgs, c \in Comments}
    \cup {promoteVariation(tree, vp) : vp \in VariationPaths}
    \cup {deleteVariation(tree, vp) : vp \in VariationPaths}

C7_InputTreeUntouched ==
  \A r \in Calls : TreeValue(tree, r.heap) = TreeValue(tree, heap)

\* C8: the first main-line node has no parent and every later one has its
\* predecessor on the main line as parent.
C8_MainLineParentChain ==
  \A i \in 1..Len(tree.mainLine) :
    /\ tree.mainLine[i] \in DOMAIN tree.moves
    /\ tree.moves[tree.mainLine[i]].parentId =
         (IF i = 1 THEN NoNode ELSE tree.mainLine[i - 1])

\* A main line of three nodes grown from a scoresheet whose first entry was
\* skipped, with a variation in the tree.
C8_Witness ==
  /\ Len(tree.mainLine) >= 3
  /\ Len(Plies(game)) > 1
  /\ tree.moves[tree.mainLine[1]].move # Plies(game)[1]
  /\ \E i \in DOMAIN tree.moves : Len(tree.moves[i].variations) > 0
  /\ C8_MainLineParentChain

\* C9: a node is flagged isMainLine exactly when its id is on mainLine.
C9_IsMainLineFlag ==
  \A i \in DOMAIN tree.moves : tree.moves[i].isMainLine <=> Includes(tree.mainLine, i)

\* C10: no id occurs twice within mainLine and the variation lines taken
\* together, and the next id to be allocated is no key of the node store.
LineKeys ==
  {<<NoNode, 0>>}
    \cup UNION {{<<p, k>> : k \in DOMAIN tree.moves[p].variations} : p \in DOMAIN tree.moves}

LineAt(l) ==
  IF l[1] = NoNode THEN tree.mainLine ELSE LineIds(tree.moves[l[1]].variations[l[2]], heap)

Places(x) == {<<l, j>> \in LineKeys \X (1..MaxUuids + 2) : j <= Len(LineAt(l)) /\ LineAt(l)[j] = x}

C10_IdsUnique ==
  /\ \A l \in LineKeys : \A j \in 1..Len(LineAt(l)) :
       Cardinality(Places(LineAt(l)[j])) = 1
  /\ \A r \in Calls : \A id \in (uuids + 1)..r.uuids : id \notin DOMAIN tree.moves

\* Four nodes spread over the main line and two variation lines.
C10_Witness ==
  /\ Cardinality(DOMAIN tree.moves) = MaxNodes
  /\ Cardinality(LineKeys) >= 3
  /\ \E l \in LineKeys : l[1] # NoNode /\ Len(LineAt(l)) >= 2
  /\ C10_IdsUnique

\* C11: the cursor of every reachable tree, and of every tree an engine call
\* returns from it, is the sentinel or a key of the node store.
ValidCursor(t) == t.currentNode = NoNode \/ t.currentNode \in DOMAIN t.moves

C11_CurrentNodeValid ==
  /\ ValidCursor(tree)
  /\ \A r \in Calls : ~r.threw => ValidCursor(r.tree)

\* A call that creates nothing and moves the cursor onto the first node of an
\* existing variation.
C11_Witness ==
  \E r \in Calls :
    /\ ~r.threw
    /\ DOMAIN r.tree.moves = DOMAIN tree.moves
    /\ r.tree.currentNode # tree.currentNode
    /\ r.tree.currentNode \in DOMAIN tree.moves
    /\ ~Includes(tree.mainLine, r.tree.currentNode)
    /\ ValidCursor(tree)

\* C12: every variation line of every node N is non-empty and its first node
\* has N as parent.
C12_VariationAttachment ==
  \A n \in DOMAIN tree.moves : \A k \in DOMAIN tree.moves[n].variations :
    LET line == LineIds(tree.moves[n].variations[k], heap) IN
      /\ Len(line) > 0
      /\ line[1] \in DOMAIN tree.moves
      /\ tree.moves[line[1]].parentId = n

\* A node with two variation lines, one of them longer than one node.
C12_Witness ==
  /\ \E n \in DOMAIN tree.moves :
       /\ Len(tree.moves[n].variations) >= 2
       /\ \E k \in DOMAIN tree.moves[n].variations :
            Len(LineIds(tree.moves[n].variations[k], heap)) >= 2
  /\ C12_VariationAttachment

\* C13: the position of every node is what the oracle gives for the node's
\* move played from the parent's position (the root position without parent).
ParentPosition(t, i) ==
  IF t.moves[i].parentId = NoNode THEN t.rootPosition
  ELSE t.moves[t.moves[i].parentId].fen

C13_PositionConsistency ==
  \A i \in DOMAIN tree.moves :
    /\ tree.moves[i].parentId = NoNode \/ tree.moves[i].parentId \in DOMAIN tree.moves
    /\ Legal(ParentPosition(tree, i), tree.moves[i].move)
    /\ tree.moves[i].fen = FenAfter(ParentPosition(tree, i), tree.moves[i].move)

\* A tree loaded from a scoresheet with a skipped entry, grown by a played
\* move and by a variation.
C13_Witness ==
  /\ Len(Plies(game)) > Len(tree.mainLine)
  /\ Len(tree.mainLine) >= 1
  /\ Cardinality(DOMAIN tree.moves) >= 3
  /\ \E i \in DOMAIN tree.moves : Len(tree.moves[i].variations) > 0
  /\ C13_PositionConsistency

\* C14: createVariation from an existing node p with a move m that is legal
\* there and starts no variation of p adds exactly one node (not main line,
\* parent p), appends one line holding that node to p.variations, leaves
\* mainLine alone and puts the cursor on the new node.
StartsVariation(p, m) ==
  \E k \in DOMAIN Lines(tree, heap, p) :
    LET line == Lines(tree, heap, p)[k] IN
      /\ Len(line) > 0
      /\ line[1] \in DOMAIN tree.moves
      /\ San(tree.moves[line[1]].move) = San(m)

C14_CreateVariationAdds ==
  \A p \in DOMAIN tree.moves, m \in Texts :
    (Legal(tree.moves[p].fen, m) /\ ~StartsVariation(p, m)) =>
      LET r == Vary(p, m) IN
        /\ ~r.threw
        /\ r.tree.mainLine = tree.mainLine
        /\ \E n \in DOMAIN r.tree.moves :
             /\ n \notin DOMAIN tree.moves
             /\ DOMAIN r.tree.moves = DOMAIN tree.moves \cup {n}
             /\ ~r.tree.moves[n].isMainLine
             /\ r.tree.moves[n].parentId = p
             /\ Lines(r.tree, r.heap, p) = Append(Lines(tree, heap, p), <<n>>)
             /\ r.tree.currentNode = n

\* C15: playMove from a from-node id that is no key of the node store, and
\* createVariation with such a parent id, return the tree they were given and
\* do not throw.  In part_001 the from-node of playMove is the cursor of the
\* tree passed in.
C15_UnknownNodeId ==
  \A m \in Texts :
    /\ SameTree(Vary(UnknownId, m))
    /\ LET input == IF impl = "lib" THEN tree
                    ELSE [tree EXCEPT !.currentNode = UnknownId]
           r == IF impl = "lib" THEN playMove(input, UnknownId, m)
                ELSE playMove_p1(input, m)
       IN /\ ~r.threw
          /\ TreeValue(r.tree, r.heap) = TreeValue(input, heap)

\* C16: addComment sets the comment of the node with the given id and changes
\* nothing else: the node's other fields, the other nodes, mainLine,
\* currentNode and rootPosition stay; with an absent id the tree stays as it
\* was.
OtherFields ==
  {"id", "move", "fen", "moveNumber", "color", "isMainLine", "parentId", "variations"}

C16_AddCommentFrame ==
  \A nodeId \in NodeArgs, text \in Comments \cup {""} :
    LET r == addComment(tree, nodeId, text)
        before == TreeValue(tree, heap)
        after == TreeValue(r.tree, r.heap)
    IN /\ ~r.threw
       /\ TreeValue(tree, r.heap) = before
       /\ IF nodeId \in DOMAIN tree.moves
          THEN /\ DOMAIN after.moves = DOMAIN before.moves
               /\ after.moves[nodeId].comment = text
               /\ \A f \in OtherFields : after.moves[nodeId][f] = before.moves[nodeId][f]
               /\ \A j \in DOMAIN before.moves \ {nodeId} : after.moves[j] = before.moves[j]
               /\ after.mainLine = before.mainLine
               /\ after.currentNode = before.currentNode
               /\ after.rootPosition = before.rootPosition
          ELSE after = before

\* A first comment put on a node that carries a variation and is not the
\* current node.
C16_Witness ==
  \E nodeId \in DOMAIN tree.moves :
    /\ nodeId # tree.currentNode
    /\ Len(tree.moves[nodeId].variations) > 0
    /\ tree.moves[nodeId].comment = ""
    /\ addComment(tree, nodeId, "!").tree.moves[nodeId].comment = "!"
    /\ Cardinality(DOMAIN tree.moves) >= 3
    /\ C16_AddCommentFrame

\* C17: promoteVariation and deleteVariation return a tree equal to their
\* input for every variationPath, also one after the other.
Paths == {<<>>, <<0>>, <<1>>, <<0, 1>>, <<1, 0>>}

C17_StubsChangeNothing ==
  \A vp \in Paths, vq \in Paths :
    /\ SameTree(promoteVariation(tree, vp))
    /\ SameTree(deleteVariation(tree, vp))
    /\ SameTree(deleteVariation(promoteVariation(tree, vp).tree, vq))
    /\ SameTree(promoteVariation(deleteVariation(tree, vp).tree, vq))

\* A tree with a main line of two moves and a variation at index 0 of its
\* first node, the cursor in the variation.
C17_Witness ==
  /\ Len(tree.mainLine) >= 2
  /\ Len(tree.moves[tree.mainLine[1]].variations) > 0
  /\ tree.currentNode \in DOMAIN tree.moves
  /\ ~Includes(tree.mainLine, tree.currentNode)
  /\ C17_StubsChangeNothing

\* C18: every engine call returns a node store that holds every id of its
\* input and at most one id more.
C18_NodeStoreAppendOnly ==
  \A r \in Calls :
    ~r.threw =>
      /\ DOMAIN tree.moves \subseteq DOMAIN r.tree.moves
      /\ Cardinality(DOMAIN r.tree.moves) <= Cardinality(DOMAIN tree.moves) + 1

\* A tree with a variation in which one call adds a node and another adds
\* none.
C18_Witness ==
  /\ \E i \in DOMAIN tree.moves : Len(tree.moves[i].variations) > 0
  /\ \E r \in Calls :
       Cardinality(DOMAIN r.tree.moves) = Cardinality(DOMAIN tree.moves) + 1
  /\ \E r \in Calls : ~r.threw /\ DOMAIN r.tree.moves = DOMAIN tree.moves
  /\ C18_NodeStoreAppendOnly

\* C19: convertMovesToGameTree passes over every entry the oracle rejects from
\* the position reached so far: such an entry gives no node and leaves the
\* position, the entries after it are tried from there, and mainLine holds
\* the accepted entries in input order.
RECURSIVE Accepted(_, _)
Accepted(plies, fen) ==
  IF plies = <<>> THEN <<>>
  ELSE IF Legal(fen, Head(plies))
       THEN <<Head(plies)>> \o Accepted(Tail(plies), FenAfter(fen, Head(plies)))
       ELSE Accepted(Tail(plies), fen)

RECURSIVE PositionAfter(_, _)
PositionAfter(plies, fen) ==
  IF plies = <<>> THEN fen ELSE PositionAfter(Tail(plies), FenAfter(fen, Head(plies)))

C19_SkipsInvalidMoves ==
  (phase # "input") =>
    LET acc == Accepted(Plies(game), StartFen) IN
      /\ Len(tree.mainLine) = Len(acc)
      /\ DOMAIN tree.moves = {tree.mainLine[i] : i \in 1..Len(tree.mainLine)}
      /\ \A i \in 1..Len(acc) :
           /\ tree.moves[tree.mainLine[i]].move = acc[i]
           /\ tree.moves[tree.mainLine[i]].fen = PositionAfter(SubSeq(acc, 1, i), StartFen)

\* A list of four readable entries of which the third is illegal where it
\* stands and the fourth is accepted after it.
C19_Witness ==
  /\ phase = "tree"
  /\ Len(Plies(game)) = 4
  /\ \A i \in 1..4 : San(Plies(game)[i]) # ""
  /\ Len(tree.mainLine) = 3
  /\ tree.moves[tree.mainLine[3]].move = Plies(game)[4]
  /\ C19_SkipsInvalidMoves

\* C20: convertGameTreeToMoves gives the same list before and after a
\* createVariation, an addComment, and a playMove that leaves mainLine as it
\* was.
C20_ToMovesIgnoresVariations ==
  /\ \A n \in NodeArgs, m \in Texts :
       convertGameTreeToMoves(Vary(n, m).tree) = convertGameTreeToMoves(tree)
  /\ \A n \in NodeArgs, c \in Comments :
       convertGameTreeToMoves(addComment(tree, n, c).tree) = convertGameTreeToMoves(tree)
  /\ \A f \in Froms, m \in Texts :
       LET r == Play(f, m) IN
         (~r.threw /\ r.tree.mainLine = tree.mainLine) =>
           convertGameTreeToMoves(r.tree) = convertGameTreeToMoves(tree)

\* A main line of two moves, a playMove that adds a node off the main line
\* and a createVariation that adds one.
C20_Witness ==
  /\ Len(convertGameTreeToMoves(tree)) >= 1
  /\ Len(tree.mainLine) >= 2
  /\ \E f \in Froms, m \in Texts :
       /\ ~Play(f, m).threw
       /\ Play(f, m).tree.mainLine = tree.mainLine
       /\ DOMAIN Play(f, m).tree.moves # DOMAIN tree.moves
  /\ \E n \in NodeArgs, m \in Texts : DOMAIN Vary(n, m).tree.moves # DOMAIN tree.moves
  /\ C20_ToMovesIgnoresVariations

\* C21: playMove from the last node f of a variation line L, with a move m
\* legal from f (and starting no variation of f, the case of C23), appends the
\* new node to the end of L, leaves the number of lines of every node and
\* mainLine as they were, and gives the new node the parent f.
VariationKeys == {l \in LineKeys : l[1] # NoNode}

IsLastOf(l, f) == Len(LineAt(l)) > 0 /\ LineAt(l)[Len(LineAt(l))] = f

C21_ExtendsVariation ==
  \A f \in Froms \cap DOMAIN tree.moves, m \in Texts, l \in VariationKeys :
    (IsLastOf(l, f) /\ Legal(PositionAt(f), m) /\ ~StartsVariation(f, m)) =>
      LET r == Play(f, m) IN
        /\ ~r.threw
        /\ r.tree.mainLine = tree.mainLine
        /\ \A j \in DOMAIN tree.moves :
             /\ j \in DOMAIN r.tree.moves
             /\ Len(Lines(r.tree, r.heap, j)) = Len(Lines(tree, heap, j))
        /\ \E n \in DOMAIN r.tree.moves :
             /\ n \notin DOMAIN tree.moves
             /\ Lines(r.tree, r.heap, l[1])[l[2]] = Append(LineAt(l), n)
             /\ r.tree.moves[n].parentId = f

\* C22: playMove from a node f that lies in a variation line without being
\* its last element, with a move m legal from f (and starting no variation of
\* f), leaves the line of f as it was and appends to f.variations one new
\* line that holds only the new node.
IsInsideOf(l, f) == Includes(LineAt(l), f) /\ ~IsLastOf(l, f)

C22_BranchesInsideVariation ==
  \A f \in Froms \cap DOMAIN tree.moves, m \in Texts, l \in VariationKeys :
    (IsInsideOf(l, f) /\ Legal(PositionAt(f), m) /\ ~StartsVariation(f, m)) =>
      LET r == Play(f, m) IN
        /\ ~r.threw
        /\ l[1] \in DOMAIN r.tree.moves
        /\ Lines(r.tree, r.heap, l[1])[l[2]] = LineAt(l)
        /\ \E n \in DOMAIN r.tree.moves :
             /\ n \notin DOMAIN tree.moves
             /\ Lines(r.tree, r.heap, f) = Append(Lines(tree, heap, f), <<n>>)

\* C23: playMove from the last node f of a variation line, with a move text
\* that an existing variation of f already starts with, adds no node and no
\* variation entry and puts the cursor on the first node of that variation.
FirstOfVariation(f, m) ==
  {Lines(tree, heap, f)[k][1] : k \in {j \in DOMAIN Lines(tree, heap, f) :
      /\ Len(Lines(tree, heap, f)[j]) > 0
      /\ Lines(tree, heap, f)[j][1] \in DOMAIN tree.moves
      /\ tree.moves[Lines(tree, heap, f)[j][1]].move = m}}

C23_NavigatesToExisting ==
  \A f \in Froms \cap DOMAIN tree.moves, m \in Texts, l \in VariationKeys :
    (IsLastOf(l, f) /\ Legal(PositionAt(f), m) /\ FirstOfVariation(f, m) # {}) =>
      LET r == Play(f, m) IN
        /\ ~r.threw
        /\ DOMAIN r.tree.moves = DOMAIN tree.moves
        /\ \A j \in DOMAIN tree.moves :
             Len(Lines(r.tree, r.heap, j)) = Len(Lines(tree, heap, j))
        /\ Lines(r.tree, r.heap, l[1])[l[2]] = LineAt(l)
        /\ r.tree.currentNode \in FirstOfVariation(f, m)

\* C24: after a playMove with a legal move from a node of the tree or from
\* the sentinel, the cursor of the result is a key of the result's node store,
\* is not the from-node, and names a node whose parent is the from-node and
\* whose move is the move played.
C24_CursorAfterPlayMove ==
  \A f \in Froms, m \in Texts :
    (HasPosition(f) /\ Legal(PositionAt(f), m)) =>
      LET r == Play(f, m) IN
        /\ ~r.threw
        /\ r.tree.currentNode \in DOMAIN r.tree.moves
        /\ r.tree.currentNode # f
        /\ r.tree.moves[r.tree.currentNode].parentId = f
        /\ San(r.tree.moves[r.tree.currentNode].move) = San(m)

\* C25: a node that playMove or createVariation creates under a parent node
\* has the colour opposite to the parent's, and the parent's moveNumber if the
\* parent is a white move, that number plus one if it is a black move.
Numbered(r) ==
  \A n \in DOMAIN r.tree.moves \ DOMAIN tree.moves :
    LET node == r.tree.moves[n] IN
      node.parentId \in DOMAIN tree.moves =>
        LET parent == tree.moves[node.parentId] IN
          /\ node.color = (IF parent.color = "w" THEN "b" ELSE "w")
          /\ node.moveNumber =
               (IF parent.color = "w" THEN parent.moveNumber ELSE parent.moveNumber + 1)

C25_MoveNumbering ==
  /\ \A f \in Froms, m \in Texts : ~Play(f, m).threw => Numbered(Play(f, m))
  /\ \A p \in NodeArgs, m \in Texts : ~Vary(p, m).threw => Numbered(Vary(p, m))

\* C26: convertGameTreeToMoves conserves plies: when every id of the main
\* line is in the node store, the non-empty entries of the output, read pair
\* by pair with white before black, are the moves of the main-line nodes in
\* main-line order, each in the column of its node's colour; no output pair
\* has both entries empty.
RECURSIVE Entries(_)
Entries(moves) ==
  IF moves = <<>> THEN <<>>
  ELSE (IF Head(moves).white # "" THEN << <<"w", Head(moves).white>> >> ELSE <<>>)
       \o (IF Head(moves).black # "" THEN << <<"b", Head(moves).black>> >> ELSE <<>>)
       \o Entries(Tail(moves))

MainLineEntries(t) ==
  [i \in 1..Len(t.mainLine) |->
     <<t.moves[t.mainLine[i]].color, t.moves[t.mainLine[i]].move>>]

C26_ConservesPlies ==
  (\A i \in 1..Len(tree.mainLine) : tree.mainLine[i] \in DOMAIN tree.moves) =>
    LET out == convertGameTreeToMoves(tree) IN
      /\ Entries(out) = MainLineEntries(tree)
      /\ Plies(out) = [i \in 1..Len(tree.mainLine) |-> tree.moves[tree.mainLine[i]].move]
      /\ \A k \in 1..Len(out) : out[k].white # "" \/ out[k].black # ""

\* The main line ends on a white move after a pair closed by a black move
\* that had no white move before it.
C26_Witness ==
  /\ phase = "moves"
  /\ Len(tree.mainLine) >= 2
  /\ tree.moves[tree.mainLine[Len(tree.mainLine)]].color = "w"
  /\ Len(linear) >= 2
  /\ linear[1].white = ""
  /\ linear[Len(linear)].black = ""

\* C27: mainLine only grows at its end: the mainLine of the tree a call is
\* given is a prefix of the mainLine of the tree the call returns; a move
\* played with the cursor at the sentinel on a tree whose mainLine is not
\* empty does not replace or shorten it.
IsPrefix(s, t) == Len(s) <= Len(t) /\ \A i \in 1..Len(s) : s[i] = t[i]

C27_MainLineGrowsAtEnd ==
  \A r \in Calls : ~r.threw => IsPrefix(tree.mainLine, r.tree.mainLine)

\* C28: variation lines are parent chains: in every reachable tree, every
\* node of a variation line after the first has the node before it in the
\* line as its parent.
C28_VariationParentChain ==
  \A l \in VariationKeys : \A i \in 2..Len(LineAt(l)) :
    /\ LineAt(l)[i] \in DOMAIN tree.moves
    /\ tree.moves[LineAt(l)[i]].parentId = LineAt(l)[i - 1]

\* A variation line of two nodes.
C28_Witness ==
  \E l \in VariationKeys : Len(LineAt(l)) >= 2

\* C29: no duplicate alternatives: in every reachable tree, the variation
\* lines attached to one node have pairwise different first-move texts.
FirstMoveOf(l) == tree.moves[LineAt(l)[1]].move

C29_NoDuplicateAlternatives ==
  \A l1, l2 \in VariationKeys :
    (/\ l1[1] = l2[1]
     /\ l1[2] # l2[2]
     /\ Len(LineAt(l1)) > 0
     /\ Len(LineAt(l2)) > 0
     /\ LineAt(l1)[1] \in DOMAIN tree.moves
     /\ LineAt(l2)[1] \in DOMAIN tree.moves) =>
      FirstMoveOf(l1) # FirstMoveOf(l2)

\* C30: playMove frame: after a playMove that returns, every node record of
\* the input is in the result; at most one of them differs, and only in its
\* variations list; no existing node's move, position, colour, moveNumber,
\* parentId or comment changes; rootPosition and the tree id are unchanged.
Changed(before, after) ==
  {j \in DOMAIN before.moves : after.moves[j] # before.moves[j]}

C30_PlayMoveFrame ==
  \A f \in Froms, m \in Texts :
    LET r == Play(f, m)
        before == TreeValue(tree, heap)
        after == TreeValue(r.tree, r.heap)
    IN ~r.threw =>
         /\ DOMAIN before.moves \subseteq DOMAIN after.moves
         /\ Cardinality(Changed(before, after)) <= 1
         /\ \A j \in DOMAIN before.moves :
              \A fld \in (OtherFields \cup {"comment"}) \ {"variations"} :
                after.moves[j][fld] = before.moves[j][fld]
         /\ after.rootPosition = before.rootPosition
         /\ after.id = before.id

\* A move played from a node away from the root position adds a node and
\* changes the variations of one existing node that carries a comment.
C30_Witness ==
  \E f \in Froms, m \in Texts :
    LET r == Play(f, m)
        before == TreeValue(tree, heap)
        after == TreeValue(r.tree, r.heap)
    IN /\ ~r.threw
       /\ f \in DOMAIN tree.moves
       /\ tree.moves[f].fen # tree.rootPosition
       /\ DOMAIN after.moves # DOMAIN before.moves
       /\ Cardinality(Changed(before, after)) = 1
       /\ \E j \in Changed(before, after) :
            /\ before.moves[j].comment # ""
            /\ Len(after.moves[j].variations) >= 1

====
